---- MODULE Spec2Model ----
(***************************************************************************)
(* The three browser clients of the mileage tracker                        *)
(*   src/mileage_app/static/app.js   (the spreadsheet-style UI)            *)
(*   src/unnamed/part_000            (the first, sequential client)        *)
(*   src/unnamed/part_001            (the second client, location chips)   *)
(* as one state machine.  Exactly one of the three pages is loaded in a    *)
(* behaviour (variable client).  The server is the environment: a request  *)
(* in flight is answered, at any later time, by any response of a bounded  *)
(* set (2xx with a JSON body, 2xx with a body that is not JSON, non-2xx).  *)
(*                                                                         *)
(* Strings are sequences of tokens: a token is one character that matters  *)
(* to the code (a double quote, an ampersand, a less-than sign) or a word  *)
(* the code treats as a unit.                                              *)
(***************************************************************************)
EXTENDS Integers, Sequences, FiniteSets, Bags, TLC

\* ------------------------------------------------------------------ bounds
MaxTripId == 2        \* trips the server knows: ids 1..MaxTripId
MaxLen == 2           \* longest trip list a response carries
MaxInFlight == 3      \* requests in flight at once (guards of the issuing actions)
YearsBack == 1        \* prev-year is followed this many years below the current year

CurrentYear == 2025   \* new Date().getFullYear(); next-year is not followed above it
MinYear == CurrentYear - YearsBack

\* ------------------------------------------------------------- JS values
Null == 0                       \* null / undefined where the value is an id
NullArr == <<0>>                \* null where the value is an array of trips (ids are >= 1)
EmptyStr == <<>>                \* ""

\* String.prototype.includes: sub occurs in s as a contiguous run of tokens.
Includes(s, sub) ==
  \E i \in 1..(Len(s) + 1) :
     /\ i + Len(sub) - 1 <= Len(s)
     /\ SubSeq(s, i, i + Len(sub) - 1) = sub

\* s.length, exact below 3: a token is one character, or a word of three or more.
IsWordTok(c) == c \notin {"\"", "&", "<", ">", " ", ",", "{", "}", ":", "-", "O", "d", "A", "1", "2"}

RECURSIVE StrLength(_)
StrLength(s) ==
  IF s = <<>> THEN 0 ELSE (IF IsWordTok(Head(s)) THEN 3 ELSE 1) + StrLength(Tail(s))

\* ---------------------------------------------------------- server data
TripIds == 1..MaxTripId
Years == MinYear..CurrentYear

\* The Trip with a given id, as the server serialises it (spec.md section 3).
tripYear(id) == IF id % 2 = 1 THEN CurrentYear ELSE CurrentYear - 1
tripMonth(id) == IF id % 2 = 1 THEN 1 ELSE 2
tripRound(id) == id % 2 = 1
tripKm(id) == CASE id = 1 -> 20000 [] id = 2 -> 5000 [] OTHER -> 500 * id
tripDate(id) == <<ToString(tripYear(id)), "-", ToString(tripMonth(id)), "-", "15">>
tripPurpose(id) == IF id % 2 = 1 THEN <<"Kunde">> ELSE <<"moede">>
tripOrigin(id) == <<"Hjem">>
tripDest(id) == IF id = 1 THEN <<"Kunde", " ", "A">> ELSE <<"Kontor">>

RECURSIVE SeqsUpTo(_, _)
\* All sequences over S without repetition of length at most n.
SeqsUpTo(S, n) ==
  IF n = 0 THEN {<<>>}
  ELSE LET shorter == SeqsUpTo(S, n - 1)
       IN shorter \cup {Append(q, x) : q \in shorter, x \in S}

NoRepeat(q) == \A i, j \in 1..Len(q) : i # j => q[i] # q[j]
TripLists == {q \in SeqsUpTo(TripIds, MaxLen) : NoRepeat(q)}

\* rate_high / rate_low of a Summary, in oere per km (3.94 kr = 394).
Rates == {[high |-> 394, low |-> 228], [high |-> 379, low |-> 223]}

\* ------------------------------------------------------------ responses
\* An HTTP response: status, the body text, whether JSON.parse(text) succeeds,
\* the parsed body's "detail" member (EmptyStr when it has none) and the parsed
\* body's payload (its type is the endpoint's).
Response(status, text, parsed, detail, data) ==
  [status |-> status, text |-> text, parsed |-> parsed, detail |-> detail, data |-> data]

HtmlText == <<"<", "html", ">">>
DetailText(d) == <<"{", "detail", ":">> \o d \o <<"}">>

\* 2xx with the JSON payload data.
OkJSON(data) == Response(200, <<"json">>, TRUE, EmptyStr, data)
\* 2xx whose body is not JSON; dflt only gives the record its type.
OkNotJSON(dflt) == Response(200, HtmlText, FALSE, EmptyStr, dflt)
\* non-2xx responses: an empty body, a JSON body with a detail, a body that is not JSON.
ErrEmpty(status, dflt) == Response(status, EmptyStr, FALSE, EmptyStr, dflt)
ErrDetail(status, d, dflt) == Response(status, DetailText(d), TRUE, d, dflt)
ErrText(status, dflt) == Response(status, HtmlText, FALSE, EmptyStr, dflt)

Failures(dflt) == { ErrDetail(404, <<"Not found">>, dflt) }

\* fetchJSON (app.js:75-89, part_000:10-20, part_001:12-22): what the awaited call
\* gives: threw/message when it rejects, else isNull/data.
fetchJSON(res) ==
  LET ok == res.status \in 200..299
      hasData == res.text # EmptyStr /\ res.parsed
      msg == IF hasData /\ res.detail # EmptyStr THEN res.detail
             ELSE IF res.text # EmptyStr THEN res.text
             ELSE <<"HTTP", " ", ToString(res.status)>>
  IN IF ~ok
     THEN [threw |-> TRUE, message |-> msg, isNull |-> TRUE, data |-> res.data]
     ELSE [threw |-> FALSE, message |-> EmptyStr, isNull |-> ~hasData, data |-> res.data]

\* The message of the TypeError thrown when a member of null is read.
TypeErrorMsg == <<"TypeError">>

\* ============================================================== state
VARIABLES
  client,        \* which page is loaded: "app" (app.js), "p0" (part_000), "p1" (part_001)
  state,         \* app.js:10-23, the state object
  yearlyRates,   \* app.js:392
  dom,           \* the elements of the page the code reads and writes
  net,           \* the requests in flight (a bag)
  refreshes,     \* the refresh() calls whose promise is pending
  timers,        \* the pending timeouts of the two debounced handlers
  pc,            \* the position of the DOMContentLoaded handler
  clickedRow,    \* the trip whose delete button was clicked most recently (Null: none yet)
  last           \* the event the last step handled and what the handler showed

vars == <<client, state, yearlyRates, dom, net, refreshes, timers, pc, clickedRow, last>>

\* ------------------------------------------------------------ requests
NoBody ==
  [fields |-> {}, trip_date |-> EmptyStr, purpose |-> EmptyStr, origin |-> EmptyStr,
   destination |-> EmptyStr, round_trip |-> FALSE, travel_mode |-> EmptyStr]

\* kind: "trips" GET /api/trips?year=, "summary" GET /api/summary?year=,
\* "alltrips" GET /api/trips, "locations", "post", "patch", "delete", "preview",
\* "calendar".  rid: the refresh() call a load belongs to (0: none).
Request(kind, year, id, body, rid) ==
  [kind |-> kind, year |-> year, id |-> id, body |-> body, rid |-> rid]

InFlight(w) == BagCardinality(w.net)
Send(w, r) == [w EXCEPT !.net = @ (+) SetToBag({r})]
Receive(w, r) == [w EXCEPT !.net = @ (-) SetToBag({r})]
Pending == BagToSet(net)

\* ------------------------------------------------------- handler output
NoToast == [type |-> "none", message |-> EmptyStr]
NoOut == [toast |-> NoToast, console |-> FALSE, unhandled |-> FALSE]

\* showToast (app.js:95-131): the toast added to the container.
showToast(w, message, type) ==
  [w EXCEPT !.out.toast = [type |-> type, message |-> message]]

\* console.error (app.js:400, 635).
consoleError(w) == [w EXCEPT !.out.console = TRUE]
\* an exception or rejection nothing catches.
unhandled(w) == [w EXCEPT !.out.unhandled = TRUE]

\* The world a handler works on, and the step that commits its result.
World ==
  [state |-> state, rates |-> yearlyRates, dom |-> dom, net |-> net,
   refreshes |-> refreshes, timers |-> timers, pc |-> pc, clicked |-> clickedRow,
   out |-> NoOut]

Commit(w, ev, kind, seen) ==
  /\ state' = w.state
  /\ yearlyRates' = w.rates
  /\ dom' = w.dom
  /\ net' = w.net
  /\ refreshes' = w.refreshes
  /\ timers' = w.timers
  /\ clickedRow' = w.clicked
  /\ pc' = w.pc
  /\ last' = [ev |-> ev, kind |-> kind, status |-> seen.status, parsed |-> seen.parsed,
               data |-> seen.data, message |-> seen.message, out |-> w.out]
  /\ UNCHANGED client

\* What the last step saw of a response: its status, whether its body parsed, what
\* it parsed to, and the message of the error fetchJSON threw for it.
Seen(res) ==
  [status |-> res.status, parsed |-> res.parsed, data |-> res.data,
   message |-> fetchJSON(res).message]
NoRes == [status |-> 0, parsed |-> TRUE, data |-> 0, message |-> EmptyStr]

\* ======================================================= app.js: the list
\* String.prototype.toLowerCase, token by token.
toLowerCase(s) ==
  [i \in 1..Len(s) |->
     CASE s[i] = "Kunde" -> "kunde"
       [] s[i] = "Hjem" -> "hjem"
       [] s[i] = "Kontor" -> "kontor"
       [] s[i] = "A" -> "a"
       [] OTHER -> s[i]]

\* parseInt(month, 10) of a month tab's data-month (app.js:447).
parseInt(m) == CASE m = "1" -> 1 [] m = "2" -> 2 [] m = "3" -> 3 [] OTHER -> 0

\* new Date(t.trip_date).getMonth() + 1 (app.js:449).
getMonth(id) == tripMonth(id)

RECURSIVE SumKm(_)
\* filteredTrips.reduce((sum, t) => sum + t.distance_km, 0) (app.js:406).
SumKm(q) == IF q = <<>> THEN 0 ELSE tripKm(Head(q)) + SumKm(Tail(q))

threshold == 20000

\* updateStatsDisplay without the tier above the threshold.
updateStatsDisplay_flat(w) ==
  LET totalKm == SumKm(w.state.filteredTrips)
  IN [w EXCEPT !.dom.stat =
        [set |-> TRUE, trips |-> Len(w.state.filteredTrips), km |-> totalKm,
         amount |-> totalKm * w.rates.high, rate |-> w.rates.high]]

\* updateStatsDisplay (app.js:404-422); amounts in oere.
updateStatsDisplay(w) ==
  LET totalKm == SumKm(w.state.filteredTrips)
      reimbursement ==
        IF totalKm <= threshold
        THEN totalKm * w.rates.high
        ELSE (threshold * w.rates.high) + ((totalKm - threshold) * w.rates.low)
  IN [w EXCEPT !.dom.stat =
        [set |-> TRUE, trips |-> Len(w.state.filteredTrips), km |-> totalKm,
         amount |-> reimbursement, rate |-> w.rates.high]]

\* applyFilters (app.js:442-472) throws a TypeError at [...state.trips] when
\* state.trips is null, before it assigns anything.
applyFiltersThrows(w) == w.state.trips = NullArr

applyFilters(w) ==
  LET st == w.state
      MonthOk(id) == st.selectedMonth = "all" \/ getMonth(id) = parseInt(st.selectedMonth)
      query == toLowerCase(st.searchQuery)
      SearchOk(id) ==
        \/ st.searchQuery = EmptyStr
        \/ Includes(toLowerCase(tripPurpose(id)), query)
        \/ Includes(toLowerCase(tripOrigin(id)), query)
        \/ Includes(toLowerCase(tripDest(id)), query)
      TypeOk(id) ==
        CASE st.activeFilter = "round-trip" -> tripRound(id)
          [] st.activeFilter = "one-way" -> ~tripRound(id)
          [] OTHER -> TRUE
      Keep(id) == MonthOk(id) /\ SearchOk(id) /\ TypeOk(id)
  IN [w EXCEPT !.state.filteredTrips = SelectSeq(st.trips, Keep)]

\* renderTrips without the call of updateStatsDisplay.
renderTrips_noStats(w) ==
  LET isEmpty == Len(w.state.filteredTrips) = 0
  IN [w EXCEPT
        !.dom.emptyHidden = ~isEmpty \/ w.state.isLoading,
        !.dom.loadingHidden = ~w.state.isLoading,
        !.dom.rows = IF isEmpty \/ w.state.isLoading THEN <<>> ELSE w.state.filteredTrips]

\* renderTrips (app.js:474-531): the stats, the placeholders and the sheet rows
\* (each row carries a delete button for its trip).
renderTrips(w) ==
  LET isEmpty == Len(w.state.filteredTrips) = 0
      w1 == updateStatsDisplay(w)
  IN [w1 EXCEPT
        !.dom.emptyHidden = ~isEmpty \/ w.state.isLoading,
        !.dom.loadingHidden = ~w.state.isLoading,
        !.dom.rows = IF isEmpty \/ w.state.isLoading THEN <<>> ELSE w.state.filteredTrips]

\* setLoading (app.js:533-537).
setLoading(w, isLoading) ==
  [w EXCEPT !.state.isLoading = isLoading, !.dom.loadingHidden = ~isLoading]

\* loadSummary (app.js:394-402) up to its await: the request is issued.
loadSummary(w, rid) == Send(w, Request("summary", w.state.selectedYear, Null, NoBody, rid))

\* loadTrips (app.js:428-440) up to its await.
loadTrips(w, rid) ==
  Send(setLoading(w, TRUE), Request("trips", w.state.selectedYear, Null, NoBody, rid))

\* The refresh() calls are told apart by a number free among the pending ones.
FreeRid(w) ==
  CHOOSE n \in 1..(MaxInFlight + 1) :
    /\ \A f \in w.refreshes : f.rid # n
    /\ \A r \in BagToSet(w.net) : r.rid # n
    /\ \A m \in 1..(n - 1) :
         (\E f \in w.refreshes : f.rid = m) \/ (\E r \in BagToSet(w.net) : r.rid = m)

\* refresh (app.js:639-641) up to its await: Promise.all([loadTrips(), loadSummary()]).
\* cont is what awaits it: "none", "submit" (handleTripFormSubmit), "init".
refresh(w, cont) ==
  LET rid == FreeRid(w)
      w1 == loadSummary(loadTrips(w, rid), rid)
  IN [w1 EXCEPT !.refreshes = @ \cup {[rid |-> rid, cont |-> cont]}]

CanSend(n) == BagCardinality(net) + n <= MaxInFlight

\* ==================================================== app.js: the modals
\* The Location with a given id (spec.md section 3): 1 is home and has a postal code.
LocationIds == {1, 2}
locIsHome(id) == id = 1
locAddress(id) == IF id = 1 THEN <<"Hjemvej", " ", "1">> ELSE <<"Kontorvej", " ", "2">>
locPostal(id) == IF id = 1 THEN <<"8000">> ELSE EmptyStr
LocationLists == {<<1, 2>>}

\* formatAddress (app.js:49-51).
formatAddress(id) ==
  IF locPostal(id) # EmptyStr THEN locAddress(id) \o <<",", " ">> \o locPostal(id)
  ELSE locAddress(id)

\* todayISO() (app.js:32-34).
Today == <<"2025-11-04">>

\* state.locations.find(l => l.is_home) (app.js:167): the first home, Null if none.
FindHome(locs) ==
  IF \E i \in 1..Len(locs) : locIsHome(locs[i])
  THEN locs[CHOOSE i \in 1..Len(locs) :
              locIsHome(locs[i]) /\ \A j \in 1..(i - 1) : ~locIsHome(locs[j])]
  ELSE Null

Contains(q, x) == \E i \in 1..Len(q) : q[i] = x

\* hideDistancePreview (app.js:230-233).
hideDistancePreview(w) ==
  [w EXCEPT !.dom.previewHidden = TRUE,
            !.dom.previewText = [kind |-> "--", km |-> 0, roundTrip |-> FALSE]]

\* renderLocations (app.js:334-385) rebuilds the chips from state.locations and the
\* selected ids; state.locations.map throws a TypeError when state.locations is null.
renderLocationsThrows(w) == w.state.locations = NullArr
renderLocations(w) == [w EXCEPT !.dom.chips = w.state.locations]

\* openTripModal (app.js:137-180).  It throws (a TypeError nothing catches) when the
\* array it searches is null; what it assigned before stays assigned.
openTripModal(w, tripId) ==
  LET w0 == [w EXCEPT !.state.editingTripId = tripId]
  IN IF tripId # Null
     THEN \* edit mode
          IF w0.state.trips = NullArr THEN unhandled(w0)
          ELSE IF ~Contains(w0.state.trips, tripId) THEN w0
          ELSE LET w1 == [w0 EXCEPT !.dom.trip_date = tripDate(tripId),
                                    !.dom.purpose = tripPurpose(tripId),
                                    !.dom.origin = tripOrigin(tripId),
                                    !.dom.destination = tripDest(tripId),
                                    !.dom.round_trip = tripRound(tripId)]
               IN IF renderLocationsThrows(w1) THEN unhandled(w1)
                  ELSE [renderLocations(w1) EXCEPT !.dom.tripModalOpen = TRUE]
     ELSE \* add mode
          LET w1 == [w0 EXCEPT !.dom.trip_date = Today,
                               !.dom.purpose = EmptyStr,
                               !.dom.destination = EmptyStr,
                               !.dom.round_trip = TRUE]
          IN IF w1.state.locations = NullArr THEN unhandled(w1)
             ELSE LET home == FindHome(w1.state.locations)
                  IN IF home # Null
                     THEN renderLocations(
                            [w1 EXCEPT !.state.selectedOrigin = home,
                                       !.dom.origin = formatAddress(home),
                                       !.dom.tripModalOpen = TRUE])
                     ELSE renderLocations(
                            [w1 EXCEPT !.dom.origin = EmptyStr,
                                       !.dom.tripModalOpen = TRUE])

\* closeTripModal (app.js:182-190).
closeTripModal(w) ==
  hideDistancePreview(
    [w EXCEPT !.dom.tripModalOpen = FALSE,
              !.state.editingTripId = Null,
              !.state.selectedOrigin = Null,
              !.state.selectedDest = Null])

\* showDeleteModal that forgets the id.
showDeleteModal_noTarget(w, tripId) == [w EXCEPT !.dom.deleteModalOpen = TRUE]

\* showDeleteModal (app.js:192-198).
showDeleteModal(w, tripId) ==
  [w EXCEPT !.state.deleteTargetId = tripId, !.dom.deleteModalOpen = TRUE]

\* hideDeleteModal (app.js:200-205).
hideDeleteModal(w) ==
  [w EXCEPT !.dom.deleteModalOpen = FALSE, !.state.deleteTargetId = Null]

\* closeCalendarModal (app.js:654-658).
closeCalendarModal(w) == [w EXCEPT !.dom.calendarModalOpen = FALSE]

\* ================================================== app.js: the calendar
\* The CalendarEvent with a given number (spec.md section 3), as the server sends it.
EventIds == {1, 2}
eventDate(k) == IF k = 1 THEN <<"2025-03-01">> ELSE <<"2025-04-02">>
eventTitle(k) == IF k = 1 THEN <<"Kundemoede">> ELSE <<"Moede", " ", "\"", "Q1", "\"", " ", "<", "plan", ">">>
eventLocation(k) == IF k = 1 THEN <<"Aarhus">> ELSE <<"Cafe", " ", "&", " ", "Co">>
EventLists == {<<>>, <<1>>, <<2, 1>>}

\* escapeHtml (app.js:36-40): the innerHTML of a div whose textContent is str.  The
\* serialisation of a text node escapes &, < and >; it leaves a double quote as it is.
escapeHtml(str) ==
  [i \in 1..Len(str) |->
     CASE str[i] = "&" -> "&amp;"
       [] str[i] = "<" -> "&lt;"
       [] str[i] = ">" -> "&gt;"
       [] OTHER -> str[i]]

\* The value the HTML parser gives an attribute written name="raw" (app.js:723):
\* the value ends at the first double quote, and its character references are decoded.
AttrValue(raw) ==
  LET end == IF \E i \in 1..Len(raw) : raw[i] = "\""
             THEN (CHOOSE i \in 1..Len(raw) :
                     raw[i] = "\"" /\ \A j \in 1..(i - 1) : raw[j] # "\"") - 1
             ELSE Len(raw)
      cut == SubSeq(raw, 1, end)
  IN [i \in 1..Len(cut) |->
        CASE cut[i] = "&amp;" -> "&"
          [] cut[i] = "&lt;" -> "<"
          [] cut[i] = "&gt;" -> ">"
          [] OTHER -> cut[i]]

\* renderCalendarEvents (app.js:697-737): one element per event; data-event holds
\* the event, the button's dataset what the parser read from its attributes.
renderCalendarEvents(w, events) ==
  [w EXCEPT !.dom.calEvents =
     [i \in 1..Len(events) |->
        [event |-> events[i],
         date |-> AttrValue(eventDate(events[i])),
         title |-> AttrValue(escapeHtml(eventTitle(events[i]))),
         location |-> AttrValue(escapeHtml(eventLocation(events[i])))]]]

\* loadCalendarEvents (app.js:660-695) up to its await.
loadCalendarEvents(w) ==
  Send([w EXCEPT !.dom.calLoadingHidden = FALSE,
                 !.dom.calEmptyHidden = TRUE,
                 !.dom.calNotConnectedHidden = TRUE,
                 !.dom.calEventsHidden = TRUE],
       Request("calendar", Null, Null, NoBody, Null))

\* openCalendarModal (app.js:647-652).
openCalendarModal(w) == loadCalendarEvents([w EXCEPT !.dom.calendarModalOpen = TRUE])

\* e.message.includes('not configured') || e.message.includes('501') (app.js:688).
calendarNotConfigured(message) ==
  Includes(message, <<"not configured">>) \/ Includes(message, <<"501">>)

\* loadCalendarEvents after its await (app.js:673-694), r what fetchJSON gave.
loadCalendarEventsResume(w, r) ==
  IF r.threw
  THEN LET w1 == [w EXCEPT !.dom.calLoadingHidden = TRUE]
           w2 == IF calendarNotConfigured(r.message) THEN w1
                 ELSE showToast(w1, r.message, "error")
       IN [w2 EXCEPT !.dom.calNotConnectedHidden = FALSE]
  ELSE LET w1 == [w EXCEPT !.dom.calLoadingHidden = TRUE]
       IN IF r.isNull \/ Len(r.data) = 0
          THEN [w1 EXCEPT !.dom.calEmptyHidden = FALSE]
          ELSE [renderCalendarEvents(w1, r.data) EXCEPT !.dom.calEventsHidden = FALSE]

\* addTripFromEvent (app.js:739-754), eventData the dataset of the clicked button.
addTripFromEvent(w, eventData) ==
  LET w1 == openTripModal(closeCalendarModal(w), Null)
  IN IF w1.out.unhandled THEN w1
     ELSE showToast([w1 EXCEPT !.dom.trip_date = eventData.date,
                               !.dom.purpose = eventData.title,
                               !.dom.destination = eventData.location],
                    <<"Udfyld startadresse og gem turen">>, "info")

\* ============================================ app.js: the distance preview
RECURSIVE trimStart(_)
trimStart(s) == IF s # <<>> /\ Head(s) = " " THEN trimStart(Tail(s)) ELSE s

RECURSIVE trimEnd(_)
trimEnd(s) ==
  IF s # <<>> /\ s[Len(s)] = " " THEN trimEnd(SubSeq(s, 1, Len(s) - 1)) ELSE s

\* String.prototype.trim.
trim(s) == trimEnd(trimStart(s))

\* debounce (app.js:63-69) applied to updateDistancePreview (app.js:261): a call
\* clears the pending timeout and sets a new one.
debouncedPreview(w) == [w EXCEPT !.timers.preview = TRUE]

\* updateDistancePreview (app.js:235-259) up to its await.
updateDistancePreview(w) ==
  LET origin == trim(w.dom.origin)
      destination == trim(w.dom.destination)
      roundTrip == w.dom.round_trip
  IN IF StrLength(origin) < 3 \/ StrLength(destination) < 3
     THEN hideDistancePreview(w)
     ELSE Send([w EXCEPT !.dom.previewHidden = FALSE,
                         !.dom.previewText = [kind |-> "Beregner...", km |-> 0, roundTrip |-> FALSE]],
               Request("preview", Null, Null,
                       [NoBody EXCEPT !.fields = {"origin", "destination", "round_trip"},
                                      !.origin = origin,
                                      !.destination = destination,
                                      !.round_trip = roundTrip],
                       Null))

\* updateDistancePreview after its await (app.js:255-258), req the request.
updateDistancePreviewResume(w, req, r) ==
  IF r.threw \/ r.isNull
  THEN [w EXCEPT !.dom.previewText = [kind |-> "Kunne ikke beregne", km |-> 0, roundTrip |-> FALSE]]
  ELSE [w EXCEPT !.dom.previewText = [kind |-> "km", km |-> r.data, roundTrip |-> req.body.round_trip]]

\* ================================================ app.js: add, edit, delete
\* confirmDelete (app.js:207-218) up to its await.
confirmDelete(w) ==
  IF w.state.deleteTargetId = Null THEN w
  ELSE Send(w, Request("delete", Null, w.state.deleteTargetId, NoBody, Null))

\* confirmDelete after its await, taking the deleted trip out of state.trips itself.
confirmDeleteResume_local(w, r) ==
  IF r.threw THEN showToast(w, r.message, "error")
  ELSE LET Other(id) == id # w.state.deleteTargetId
           w1 == [w EXCEPT !.state.trips = SelectSeq(@, Other)]
       IN refresh(hideDeleteModal(showToast(w1, <<"Tur slettet">>, "success")), "none")

\* confirmDelete after its await (app.js:211-217).
confirmDeleteResume(w, r) ==
  IF r.threw THEN showToast(w, r.message, "error")
  ELSE refresh(hideDeleteModal(showToast(w, <<"Tur slettet">>, "success")), "none")

\* The body of POST /api/trips with the destination left out.
CreateBody_noDestination(d) ==
  [fields |-> {"trip_date", "purpose", "origin", "round_trip", "travel_mode"},
   trip_date |-> d.trip_date, purpose |-> d.purpose, origin |-> d.origin,
   destination |-> EmptyStr, round_trip |-> d.round_trip, travel_mode |-> <<"DRIVE">>]

\* The body of POST /api/trips (app.js:574-581), d the form.
CreateBody(d) ==
  [fields |-> {"trip_date", "purpose", "origin", "destination", "round_trip", "travel_mode"},
   trip_date |-> d.trip_date, purpose |-> d.purpose, origin |-> d.origin,
   destination |-> d.destination, round_trip |-> d.round_trip, travel_mode |-> <<"DRIVE">>]

\* The body of PATCH /api/trips/{id} (app.js:566).
UpdateBody(d) ==
  [NoBody EXCEPT !.fields = {"trip_date", "purpose"},
                 !.trip_date = d.trip_date, !.purpose = d.purpose]

\* handleTripFormSubmit up to its await without btn.disabled = true.
handleTripFormSubmit_noDisable(w) ==
  IF w.state.editingTripId # Null
  THEN Send(w, Request("patch", Null, w.state.editingTripId, UpdateBody(w.dom), Null))
  ELSE Send(w, Request("post", Null, Null, CreateBody(w.dom), Null))

\* handleTripFormSubmit (app.js:543-595) up to its await.
handleTripFormSubmit(w) ==
  LET w1 == [w EXCEPT !.dom.btnDisabled = TRUE]
  IN IF w1.state.editingTripId # Null
     THEN Send(w1, Request("patch", Null, w1.state.editingTripId, UpdateBody(w1.dom), Null))
     ELSE Send(w1, Request("post", Null, Null, CreateBody(w1.dom), Null))

\* The finally of handleTripFormSubmit (app.js:590-594).
submitFinally(w) == [w EXCEPT !.dom.btnDisabled = FALSE]

\* handleTripFormSubmit after its await, closing the modal also when the request
\* has failed.
handleTripFormSubmitResume_closeOnError(w, req, r) ==
  IF r.threw THEN submitFinally(closeTripModal(showToast(w, r.message, "error")))
  ELSE IF req.kind = "post" /\ r.isNull
  THEN submitFinally(showToast(w, TypeErrorMsg, "error"))
  ELSE LET msg == IF req.kind = "patch" THEN <<"Tur opdateret">> ELSE <<"Gemt">>
       IN refresh(closeTripModal(showToast(w, msg, "success")), "submit")

\* handleTripFormSubmit after the await of its request (app.js:568, 583-589): a
\* failure, or a created trip that is null, goes to the catch and the finally; a
\* success closes the modal and awaits refresh().
handleTripFormSubmitResume(w, req, r) ==
  IF r.threw THEN submitFinally(showToast(w, r.message, "error"))
  ELSE IF req.kind = "post" /\ r.isNull
  THEN submitFinally(showToast(w, TypeErrorMsg, "error"))
  ELSE LET msg == IF req.kind = "patch" THEN <<"Tur opdateret">> ELSE <<"Gemt">>
       IN refresh(closeTripModal(showToast(w, msg, "success")), "submit")

\* ================================================= app.js: loading data
\* updateMonthTabIndicators (app.js:299-328): the count badge of the "all" tab.
updateMonthTabIndicators(w) == [w EXCEPT !.dom.tabCount = Len(w.state.trips)]

\* loadTrips after its await (app.js:431-439), r what fetchJSON gave.
loadTripsResume(w, r) ==
  IF r.threw THEN setLoading(showToast(w, r.message, "error"), FALSE)
  ELSE LET w1 == [w EXCEPT !.state.trips = IF r.isNull THEN NullArr ELSE r.data]
       IN IF applyFiltersThrows(w1)
          THEN setLoading(showToast(w1, TypeErrorMsg, "error"), FALSE)
          ELSE setLoading(updateMonthTabIndicators(renderTrips(applyFilters(w1))), FALSE)

\* loadSummary after its await without the call of updateStatsDisplay.
loadSummaryResume_noUpdate(w, r) ==
  IF r.threw \/ r.isNull THEN consoleError(w)
  ELSE [w EXCEPT !.rates = [high |-> r.data.rate_high, low |-> r.data.rate_low]]

\* loadSummary after its await (app.js:396-401); s.rate_high of a null s throws.
loadSummaryResume(w, r) ==
  IF r.threw \/ r.isNull THEN consoleError(w)
  ELSE updateStatsDisplay([w EXCEPT !.rates = [high |-> r.data.rate_high, low |-> r.data.rate_low]])

\* selectMonth (app.js:286-297).
selectMonth(w, month) ==
  LET w1 == [w EXCEPT !.state.selectedMonth = month, !.dom.activeTab = month]
  IN IF applyFiltersThrows(w1) THEN unhandled(w1) ELSE renderTrips(applyFilters(w1))

\* handleFilterClick (app.js:607-617).
handleFilterClick(w, filter) ==
  LET w1 == [w EXCEPT !.state.activeFilter = filter, !.dom.activeFilterBtn = filter]
  IN IF applyFiltersThrows(w1) THEN unhandled(w1) ELSE renderTrips(applyFilters(w1))

\* handleSearch (app.js:601-605).
handleSearch(w, query) ==
  LET w1 == [w EXCEPT !.state.searchQuery = query]
  IN IF applyFiltersThrows(w1) THEN unhandled(w1) ELSE renderTrips(applyFilters(w1))

\* selectYear (app.js:272-276): updateYearDisplay and an un-awaited refresh().
selectYear(w, year) ==
  refresh([w EXCEPT !.state.selectedYear = year, !.dom.yearDisplay = year], "none")

\* What runs when the promise of a refresh() call resolves: the rest of the
\* function that awaits it (app.js:590-594, app.js:887-888).
Continue(w, cont) ==
  CASE cont = "submit" -> submitFinally(w)
    [] cont = "init" -> [selectMonth(w, "all") EXCEPT !.pc = "done"]
    [] OTHER -> w

\* Promise.all of refresh (app.js:640): loadTrips and loadSummary never reject, so
\* the promise resolves when the second of the two loads has finished.
Settle(w, req) ==
  IF \E r \in BagToSet(w.net) : r.rid = req.rid THEN w
  ELSE LET f == CHOOSE f \in w.refreshes : f.rid = req.rid
       IN Continue([w EXCEPT !.refreshes = @ \ {f}], f.cont)

\* The greatest getFullYear() among the trips (app.js:879-881).
MaxYearOf(q) == CHOOSE y \in {tripYear(q[i]) : i \in 1..Len(q)} :
                  \A i \in 1..Len(q) : tripYear(q[i]) <= y

\* ===================================================== what the server sends
SummaryData ==
  {[rate_high |-> r.high, rate_low |-> r.low, reimbursement |-> x] :
     r \in Rates, x \in {0, 4728000}}
NoSummary == [rate_high |-> 0, rate_low |-> 0, reimbursement |-> 0]

TripsResponses == {OkJSON(q) : q \in TripLists} \cup {OkNotJSON(<<>>)} \cup Failures(<<>>)
SummaryResponses ==
  {OkJSON(d) : d \in SummaryData} \cup {OkNotJSON(NoSummary)} \cup Failures(NoSummary)
LocationsResponses ==
  {OkJSON(q) : q \in LocationLists} \cup {OkNotJSON(<<>>), ErrEmpty(500, <<>>)}
\* POST and PATCH answer with the trip, DELETE with an empty 204.
WriteResponses == {OkJSON(1), OkNotJSON(0), Response(204, EmptyStr, FALSE, EmptyStr, 0)} \cup Failures(0)
PreviewResponses == {OkJSON(42), OkNotJSON(0), ErrEmpty(500, 0)}
CalendarResponses ==
  {OkJSON(q) : q \in EventLists}
    \cup {OkNotJSON(<<>>), ErrEmpty(500, <<>>), ErrEmpty(501, <<>>),
          ErrText(502, <<>>),
          ErrDetail(501, <<"Calendar", " ", "not configured">>, <<>>),
          ErrDetail(501, <<"Calendar integration is disabled">>, <<>>)}

\* ================================================================= Init
InitState ==
  [locations |-> <<>>, trips |-> <<>>, filteredTrips |-> <<>>,
   selectedYear |-> CurrentYear, selectedMonth |-> "all",
   selectedOrigin |-> Null, selectedDest |-> Null, searchQuery |-> EmptyStr,
   activeFilter |-> "all", isLoading |-> FALSE, deleteTargetId |-> Null,
   editingTripId |-> Null]

\* The page as its HTML has it: the modals and placeholders hidden, the form empty.
InitDom ==
  [tripModalOpen |-> FALSE, deleteModalOpen |-> FALSE, calendarModalOpen |-> FALSE,
   trip_date |-> EmptyStr, purpose |-> EmptyStr, origin |-> EmptyStr,
   destination |-> EmptyStr, round_trip |-> TRUE, travel_mode |-> <<"DRIVE">>,
   btnDisabled |-> FALSE,
   stat |-> [set |-> FALSE, trips |-> 0, km |-> 0, amount |-> 0, rate |-> 0],
   rows |-> <<>>, emptyHidden |-> TRUE, loadingHidden |-> TRUE, tabCount |-> 0,
   activeTab |-> "all", activeFilterBtn |-> "all", yearDisplay |-> CurrentYear,
   searchInput |-> EmptyStr, chips |-> <<>>,
   calLoadingHidden |-> TRUE, calEmptyHidden |-> TRUE, calNotConnectedHidden |-> TRUE,
   calEventsHidden |-> TRUE, calEvents |-> <<>>,
   previewHidden |-> TRUE, previewText |-> [kind |-> "--", km |-> 0, roundTrip |-> FALSE],
   year |-> CurrentYear, status |-> EmptyStr, statusIsError |-> FALSE,
   error |-> EmptyStr,
   summary |-> [set |-> FALSE, reimbursement |-> 0, rate |-> 0]]

NoEvent == [ev |-> "load", kind |-> "", status |-> 0, parsed |-> TRUE, data |-> 0,
            message |-> EmptyStr, out |-> NoOut]

Init ==
  /\ client \in {"app", "p0", "p1"}
  /\ state = InitState
  /\ yearlyRates = [high |-> 394, low |-> 228]
  /\ dom = InitDom
  /\ net = EmptyBag
  /\ refreshes = {}
  /\ timers = [preview |-> FALSE, search |-> FALSE]
  /\ pc = "start"
  /\ clickedRow = Null
  /\ last = NoEvent

\* ========================================== app.js: the page initialises
Ready == client = "app" /\ pc # "start"

\* The DOMContentLoaded handler (app.js:870-889) up to its first await.
AppDOMContentLoaded ==
  /\ client = "app" /\ pc = "start"
  /\ Commit([Send(World, Request("locations", Null, Null, NoBody, Null)) EXCEPT !.pc = "locations"],
            "DOMContentLoaded", "", NoRes)

\* loadLocations after its await (app.js:633-636), then GET /api/trips (app.js:875).
AppLocationsResponse(R) ==
  /\ client = "app"
  /\ \E req \in Pending, res \in R :
       /\ req.kind = "locations"
       /\ LET r == fetchJSON(res)
              w0 == Receive(World, req)
              w1 == IF r.threw THEN consoleError(w0)
                    ELSE [w0 EXCEPT !.state.locations = IF r.isNull THEN NullArr ELSE r.data]
              w2 == Send(w1, Request("alltrips", Null, Null, NoBody, Null))
          IN Commit([w2 EXCEPT !.pc = "alltrips"], "response", "locations", Seen(res))

\* The handler after GET /api/trips (app.js:875-885): a rejection ends it.
AppAllTripsResponse(R) ==
  /\ client = "app"
  /\ \E req \in Pending, res \in R :
       /\ req.kind = "alltrips"
       /\ LET r == fetchJSON(res)
              w0 == Receive(World, req)
          IN IF r.threw
             THEN Commit([unhandled(w0) EXCEPT !.pc = "failed"], "response", "alltrips", Seen(res))
             ELSE /\ InFlight(w0) + 2 <= MaxInFlight
                  /\ LET y == IF ~r.isNull /\ Len(r.data) > 0 THEN MaxYearOf(r.data)
                              ELSE w0.state.selectedYear
                         w1 == [w0 EXCEPT !.state.selectedYear = y, !.dom.yearDisplay = y]
                     IN Commit([refresh(w1, "init") EXCEPT !.pc = "refresh"],
                               "response", "alltrips", Seen(res))

\* =========================================== app.js: responses arrive
AppTripsResponse(R) ==
  /\ client = "app"
  /\ \E req \in Pending, res \in R :
       /\ req.kind = "trips"
       /\ Commit(Settle(loadTripsResume(Receive(World, req), fetchJSON(res)), req),
                 "response", "trips", Seen(res))

AppSummaryResponse(R) ==
  /\ client = "app"
  /\ \E req \in Pending, res \in R :
       /\ req.kind = "summary"
       /\ Commit(Settle(loadSummaryResume(Receive(World, req), fetchJSON(res)), req),
                 "response", "summary", Seen(res))

AppDeleteResponse(R) ==
  /\ client = "app"
  /\ \E req \in Pending, res \in R :
       /\ req.kind = "delete"
       /\ res.status \in 200..299 => InFlight(World) + 1 <= MaxInFlight
       /\ Commit(confirmDeleteResume(Receive(World, req), fetchJSON(res)),
                 "response", "delete", Seen(res))

AppSubmitResponse(R) ==
  /\ client = "app"
  /\ \E req \in Pending, res \in R :
       /\ req.kind \in {"post", "patch"}
       /\ res.status \in 200..299 => InFlight(World) + 1 <= MaxInFlight
       /\ Commit(handleTripFormSubmitResume(Receive(World, req), req, fetchJSON(res)),
                 "response", req.kind, Seen(res))

AppPreviewResponse(R) ==
  /\ client = "app"
  /\ \E req \in Pending, res \in R :
       /\ req.kind = "preview"
       /\ Commit(updateDistancePreviewResume(Receive(World, req), req, fetchJSON(res)),
                 "response", "preview", Seen(res))

AppCalendarResponse(R) ==
  /\ client = "app"
  /\ \E req \in Pending, res \in R :
       /\ req.kind = "calendar"
       /\ Commit(loadCalendarEventsResume(Receive(World, req), fetchJSON(res)),
                 "response", "calendar", Seen(res))

\* ============================================ app.js: the user acts
\* The listeners of initEventListeners (app.js:791-867).  A control inside a
\* closed modal cannot be operated.
ClickRefresh ==
  /\ Ready /\ CanSend(2)
  /\ Commit(refresh(World, "none"), "refresh", "", NoRes)

ClickPrevYear ==
  /\ Ready /\ CanSend(2) /\ state.selectedYear > MinYear
  /\ Commit(selectYear(World, state.selectedYear - 1), "prevYear", "", NoRes)

ClickNextYear ==
  /\ Ready /\ CanSend(2) /\ state.selectedYear < CurrentYear
  /\ Commit(selectYear(World, state.selectedYear + 1), "nextYear", "", NoRes)

MonthTabs == {"all", "1", "2"}
ClickMonthTab ==
  /\ Ready
  /\ \E m \in MonthTabs : Commit(selectMonth(World, m), "selectMonth", "", NoRes)

FilterBtns == {"all", "round-trip", "one-way"}
ClickFilterBtn ==
  /\ Ready
  /\ \E f \in FilterBtns : Commit(handleFilterClick(World, f), "filter", "", NoRes)

\* The delete button of a rendered row (app.js:525-530).
ClickDeleteRow ==
  /\ Ready
  /\ \E i \in 1..Len(dom.rows) :
       Commit([showDeleteModal(World, dom.rows[i]) EXCEPT !.clicked = dom.rows[i]],
              "deleteRow", "", NoRes)

\* #delete-cancel, or a click on the backdrop of the delete modal (app.js:809-813).
ClickDeleteCancel ==
  /\ Ready /\ dom.deleteModalOpen
  /\ Commit(hideDeleteModal(World), "deleteCancel", "", NoRes)

ClickDeleteConfirm ==
  /\ Ready /\ dom.deleteModalOpen
  /\ state.deleteTargetId # Null => CanSend(1)
  /\ Commit(confirmDelete(World), "deleteConfirm", "", NoRes)

\* handleKeyboardShortcuts (app.js:760-785), the Escape key.
escapeKey(w) ==
  LET w1 == IF w.dom.deleteModalOpen THEN hideDeleteModal(w) ELSE w
      w2 == IF w1.dom.tripModalOpen THEN closeTripModal(w1) ELSE w1
  IN IF w2.dom.calendarModalOpen THEN closeCalendarModal(w2) ELSE w2

PressEscape ==
  /\ Ready
  /\ dom.deleteModalOpen \/ dom.tripModalOpen \/ dom.calendarModalOpen
  /\ Commit(escapeKey(World), "escape", "", NoRes)

\* #btn_add_trip, #empty-add-btn (when the placeholder shows) and Ctrl/Cmd+N
\* (app.js:793, 796, 764): each calls openTripModal().
ClickAddTrip ==
  /\ Ready
  /\ Commit(openTripModal(World, Null), "openTripModal", "", NoRes)

\* #trip-modal-close, #trip-cancel, or a click on the backdrop (app.js:802-806).
ClickTripClose ==
  /\ Ready /\ dom.tripModalOpen
  /\ Commit(closeTripModal(World), "closeTripModal", "", NoRes)

Purposes == {EmptyStr, <<"Kunde">>}
\* Typing in #purpose or #trip_date: no listener, the field changes.
TypePurpose ==
  /\ Ready /\ dom.tripModalOpen
  /\ \E v \in Purposes : v # dom.purpose /\ Commit([World EXCEPT !.dom.purpose = v], "type", "", NoRes)

Dates == {Today, <<"2024-12-31">>}
TypeDate ==
  /\ Ready /\ dom.tripModalOpen
  /\ \E v \in Dates : v # dom.trip_date /\ Commit([World EXCEPT !.dom.trip_date = v], "type", "", NoRes)

\* The submit of #trip-form (app.js:799); a disabled button submits nothing.
SubmitTripForm ==
  /\ Ready /\ dom.tripModalOpen /\ ~dom.btnDisabled /\ CanSend(1)
  /\ Commit(handleTripFormSubmit(World), "submit", "", NoRes)

Origins == {EmptyStr, <<"Odense">>, <<"O", "d">>}
\* The input listener of #origin (app.js:851-855), after the field took the value v.
TypeOrigin ==
  /\ Ready /\ dom.tripModalOpen
  /\ \E v \in Origins :
       /\ v # dom.origin
       /\ LET w1 == [World EXCEPT !.dom.origin = v, !.state.selectedOrigin = Null]
          IN Commit(IF renderLocationsThrows(w1) THEN unhandled(w1)
                    ELSE debouncedPreview(renderLocations(w1)),
                    "typeOrigin", "", NoRes)

Destinations == {EmptyStr, <<"Kolding">>}
\* The input listener of #destination (app.js:856-860).
TypeDestination ==
  /\ Ready /\ dom.tripModalOpen
  /\ \E v \in Destinations :
       /\ v # dom.destination
       /\ LET w1 == [World EXCEPT !.dom.destination = v, !.state.selectedDest = Null]
          IN Commit(IF renderLocationsThrows(w1) THEN unhandled(w1)
                    ELSE debouncedPreview(renderLocations(w1)),
                    "typeDestination", "", NoRes)

\* The change listener of #round_trip (app.js:863).
ToggleRoundTrip ==
  /\ Ready /\ dom.tripModalOpen
  /\ Commit(debouncedPreview([World EXCEPT !.dom.round_trip = ~@]), "toggleRoundTrip", "", NoRes)

\* The click listener of a location chip (app.js:368-383); the chip carries the
\* id and, in data-address, the escaped formatted address.
chipClick(w, isOrigin, id) ==
  LET address == AttrValue(escapeHtml(formatAddress(id)))
      w1 == IF isOrigin
            THEN LET sel == IF w.state.selectedOrigin = id THEN Null ELSE id
                 IN [w EXCEPT !.state.selectedOrigin = sel,
                              !.dom.origin = IF sel # Null THEN address ELSE EmptyStr]
            ELSE LET sel == IF w.state.selectedDest = id THEN Null ELSE id
                 IN [w EXCEPT !.state.selectedDest = sel,
                              !.dom.destination = IF sel # Null THEN address ELSE EmptyStr]
  IN IF renderLocationsThrows(w1) THEN unhandled(w1)
     ELSE debouncedPreview(renderLocations(w1))

ClickChip ==
  /\ Ready /\ dom.tripModalOpen
  /\ \E isOrigin \in BOOLEAN, i \in 1..Len(dom.chips) :
       Commit(chipClick(World, isOrigin, dom.chips[i]), "chip", "", NoRes)

\* The timeout of debouncedPreview fires (app.js:67).
PreviewTimer ==
  /\ Ready /\ timers.preview
  /\ LET w1 == updateDistancePreview([World EXCEPT !.timers.preview = FALSE])
     IN /\ InFlight(w1) <= MaxInFlight
        /\ Commit(w1, "previewTimer", "", NoRes)

Queries == {EmptyStr, <<"kunde">>, <<"Kontor">>}
\* The input listener of #search-input (app.js:828-830): debounce(..., 300).
SearchInput ==
  /\ Ready
  /\ \E v \in Queries :
       /\ v # dom.searchInput
       /\ Commit([World EXCEPT !.dom.searchInput = v, !.timers.search = TRUE],
                 "searchInput", "", NoRes)

\* The timeout of the debounced search fires: handleSearch(e.target.value).
SearchTimer ==
  /\ Ready /\ timers.search
  /\ Commit(handleSearch([World EXCEPT !.timers.search = FALSE], dom.searchInput),
            "searchTimer", "", NoRes)

\* #btn_calendar (app.js:844).
ClickCalendar ==
  /\ Ready /\ CanSend(1)
  /\ Commit(openCalendarModal(World), "openCalendarModal", "", NoRes)

\* #calendar-modal-close, or a click on the backdrop (app.js:845-848).
ClickCalendarClose ==
  /\ Ready /\ dom.calendarModalOpen
  /\ Commit(closeCalendarModal(World), "closeCalendarModal", "", NoRes)

\* The "+ Tilfoej" button of a rendered event (app.js:732-736).
ClickAddEvent ==
  /\ Ready /\ dom.calendarModalOpen /\ ~dom.calEventsHidden
  /\ \E i \in 1..Len(dom.calEvents) :
       Commit(addTripFromEvent(World, dom.calEvents[i]), "addTripFromEvent", "",
              [NoRes EXCEPT !.data = dom.calEvents[i].event])

\* ================================================================ part_000
\* setError / setStatus (part_000:22-23).
p0_setError(w, msg) == [w EXCEPT !.dom.error = msg]
p0_setStatus(w, msg) == [w EXCEPT !.dom.status = msg]

\* refresh (part_000:25-53) up to its first await: GET /api/trips?year=.
\* cont: what awaits the call: "init" (.catch, part_000:99), "add" (the try of
\* addTrip), "button" and "delete" (nothing catches).
p0_refresh(w, cont) ==
  LET rid == FreeRid(w)
      w1 == Send(p0_setError(w, EmptyStr), Request("trips", w.dom.year, Null, NoBody, rid))
  IN [w1 EXCEPT !.refreshes = @ \cup {[rid |-> rid, cont |-> cont]}]

\* The promise of refresh() rejects with msg.
p0_reject(w, f, msg) ==
  LET w1 == [w EXCEPT !.refreshes = @ \ {f}]
  IN CASE f.cont = "init" -> p0_setError(w1, msg)
       [] f.cont = "add" -> p0_setStatus(p0_setError(w1, msg), EmptyStr)
       [] OTHER -> unhandled(w1)

\* refresh after GET /api/trips (part_000:28-51): the rows, then GET /api/summary.
P0TripsResponse(R) ==
  /\ client = "p0"
  /\ \E req \in Pending, res \in R :
       /\ req.kind = "trips"
       /\ LET r == fetchJSON(res)
              w0 == Receive(World, req)
              f == CHOOSE f \in refreshes : f.rid = req.rid
          IN Commit(IF r.threw THEN p0_reject(w0, f, r.message)
                    ELSE IF r.isNull THEN p0_reject([w0 EXCEPT !.dom.rows = <<>>], f, TypeErrorMsg)
                    ELSE Send([w0 EXCEPT !.dom.rows = r.data],
                              Request("summary", req.year, Null, NoBody, req.rid)),
                    "response", "trips", Seen(res))

\* refresh after GET /api/summary (part_000:51-52).
P0SummaryResponse(R) ==
  /\ client = "p0"
  /\ \E req \in Pending, res \in R :
       /\ req.kind = "summary"
       /\ LET r == fetchJSON(res)
              w0 == Receive(World, req)
              f == CHOOSE f \in refreshes : f.rid = req.rid
          IN Commit(IF r.threw THEN p0_reject(w0, f, r.message)
                    ELSE IF r.isNull THEN p0_reject(w0, f, TypeErrorMsg)
                    ELSE [w0 EXCEPT !.refreshes = @ \ {f},
                                    !.dom.summary = [set |-> TRUE,
                                                     reimbursement |-> r.data.reimbursement,
                                                     rate |-> 0]],
                    "response", "summary", Seen(res))

\* The DOMContentLoaded handler (part_000:91-100).
P0DOMContentLoaded ==
  /\ client = "p0" /\ pc = "start"
  /\ Commit([p0_refresh([World EXCEPT !.dom.trip_date = Today], "init") EXCEPT !.pc = "done"],
            "DOMContentLoaded", "", NoRes)

P0Ready == client = "p0" /\ pc # "start"

\* #btn_refresh (part_000:96).
P0ClickRefresh ==
  /\ P0Ready /\ CanSend(1)
  /\ Commit(p0_refresh(World, "button"), "refresh", "", NoRes)

\* The Delete button of a row (part_000:43-47) up to its await.
P0ClickDelete ==
  /\ P0Ready /\ CanSend(1)
  /\ \E i \in 1..Len(dom.rows) :
       Commit([Send(World, Request("delete", Null, dom.rows[i], NoBody, Null))
                 EXCEPT !.clicked = dom.rows[i]],
              "deleteRow", "", NoRes)

P0DeleteResponse(R) ==
  /\ client = "p0"
  /\ \E req \in Pending, res \in R :
       /\ req.kind = "delete"
       /\ LET r == fetchJSON(res)
              w0 == Receive(World, req)
          IN Commit(IF r.threw THEN unhandled(w0) ELSE p0_refresh(w0, "delete"),
                    "response", "delete", Seen(res))

\* The payload of addTrip (part_000:63-70).
p0_payload(d) ==
  [fields |-> {"trip_date", "purpose", "origin", "destination", "round_trip", "travel_mode"},
   trip_date |-> d.trip_date, purpose |-> d.purpose, origin |-> d.origin,
   destination |-> d.destination, round_trip |-> d.round_trip, travel_mode |-> d.travel_mode]

\* addTrip (part_000:59-84) up to its await.
P0ClickAdd ==
  /\ P0Ready /\ CanSend(1)
  /\ Commit(Send(p0_setStatus(p0_setError(World, EmptyStr), <<"Calculating route distance...">>),
                 Request("post", Null, Null, p0_payload(dom), Null)),
            "submit", "", NoRes)

P0AddResponse(R) ==
  /\ client = "p0"
  /\ \E req \in Pending, res \in R :
       /\ req.kind = "post"
       /\ LET r == fetchJSON(res)
              w0 == Receive(World, req)
          IN Commit(IF r.threw THEN p0_setStatus(p0_setError(w0, r.message), EmptyStr)
                    ELSE p0_refresh(p0_setStatus(w0, <<"Saved!">>), "add"),
                    "response", "post", Seen(res))

\* The user edits #year (part_000:26 reads it): no listener.
P0TypeYear ==
  /\ P0Ready
  /\ \E y \in Years : y # dom.year /\ Commit([World EXCEPT !.dom.year = y], "type", "", NoRes)

\* The user edits #purpose or #destination: no listener.
P0TypeForm ==
  /\ P0Ready
  /\ \/ \E v \in Purposes : v # dom.purpose /\ Commit([World EXCEPT !.dom.purpose = v], "type", "", NoRes)
     \/ \E v \in Destinations :
          v # dom.destination /\ Commit([World EXCEPT !.dom.destination = v], "type", "", NoRes)

\* ================================================================ part_001
\* setStatus (part_001:24-28).
p1_setStatus(w, msg, isError) == [w EXCEPT !.dom.status = msg, !.dom.statusIsError = isError]

\* refresh (part_001:160-167) up to its await, with the summary request left out.
p1_refresh_tripsOnly(w, cont) ==
  LET rid == FreeRid(w)
      w1 == Send(p1_setStatus(w, EmptyStr, FALSE), Request("trips", w.dom.year, Null, NoBody, rid))
  IN [w1 EXCEPT !.refreshes = @ \cup {[rid |-> rid, cont |-> cont]}]

\* refresh (part_001:160-167) up to its await: Promise.all([loadTrips(), loadSummary()]).
\* cont: "add" (addTrip awaits it), "init", "none".
p1_refresh(w, cont) ==
  LET rid == FreeRid(w)
      w1 == Send(p1_setStatus(w, EmptyStr, FALSE), Request("trips", w.dom.year, Null, NoBody, rid))
      w2 == Send(w1, Request("summary", w.dom.year, Null, NoBody, rid))
  IN [w2 EXCEPT !.refreshes = @ \cup {[rid |-> rid, cont |-> cont]}]

\* The finally of addTrip (part_001:201-204).
p1_addFinally(w) == [w EXCEPT !.dom.btnDisabled = FALSE]

\* The promise of refresh() settles: the rest of what awaits it.
p1_complete(w, f) ==
  LET w1 == [w EXCEPT !.refreshes = @ \ {f}]
  IN IF f.cont = "add" THEN p1_addFinally(w1) ELSE w1

\* Promise.all (part_001:163) resolves when both loads have finished, if it has
\* not rejected before.
p1_settle(w, req) ==
  IF \A f \in w.refreshes : f.rid # req.rid THEN w
  ELSE IF \E r \in BagToSet(w.net) : r.rid = req.rid THEN w
  ELSE p1_complete(w, CHOOSE f \in w.refreshes : f.rid = req.rid)

\* loadTrips after its await (part_001:123-157).  A rejection, or the TypeError of
\* trips.length on null, rejects Promise.all at once: the catch of refresh shows it.
P1TripsResponse(R) ==
  /\ client = "p1"
  /\ \E req \in Pending, res \in R :
       /\ req.kind = "trips"
       /\ LET r == fetchJSON(res)
              w0 == Receive(World, req)
              f == CHOOSE f \in refreshes : f.rid = req.rid
          IN Commit(IF r.threw THEN p1_complete(p1_setStatus(w0, r.message, TRUE), f)
                    ELSE IF r.isNull
                    THEN p1_complete(p1_setStatus([w0 EXCEPT !.dom.rows = <<>>], TypeErrorMsg, TRUE), f)
                    ELSE p1_settle([w0 EXCEPT !.dom.rows = r.data], req),
                    "response", "trips", Seen(res))

\* loadSummary after its await (part_001:96-118).
P1SummaryResponse(R) ==
  /\ client = "p1"
  /\ \E req \in Pending, res \in R :
       /\ req.kind = "summary"
       /\ LET r == fetchJSON(res)
              w0 == Receive(World, req)
          IN Commit(p1_settle(IF r.threw \/ r.isNull THEN consoleError(w0)
                              ELSE [w0 EXCEPT !.dom.summary =
                                      [set |-> TRUE, reimbursement |-> r.data.reimbursement,
                                       rate |-> r.data.rate_high]],
                              req),
                    "response", "summary", Seen(res))

\* The DOMContentLoaded handler (part_001:213-227) up to its first await.
P1DOMContentLoaded ==
  /\ client = "p1" /\ pc = "start"
  /\ Commit([Send([World EXCEPT !.dom.trip_date = Today],
                   Request("locations", Null, Null, NoBody, Null)) EXCEPT !.pc = "locations"],
            "DOMContentLoaded", "", NoRes)

\* loadLocations after its await (part_001:78-90), then refresh() (part_001:226).
P1LocationsResponse(R) ==
  /\ client = "p1"
  /\ \E req \in Pending, res \in R :
       /\ req.kind = "locations"
       /\ InFlight(World) + 1 <= MaxInFlight
       /\ LET r == fetchJSON(res)
              w0 == Receive(World, req)
              w1 == IF r.threw THEN consoleError(w0)
                    ELSE IF r.isNull THEN consoleError([w0 EXCEPT !.state.locations = NullArr])
                    ELSE LET w2 == renderLocations([w0 EXCEPT !.state.locations = r.data])
                             home == FindHome(r.data)
                         IN IF home # Null /\ w2.dom.origin = EmptyStr
                            THEN renderLocations([w2 EXCEPT !.state.selectedOrigin = home,
                                                           !.dom.origin = formatAddress(home)])
                            ELSE w2
          IN Commit([p1_refresh(w1, "init") EXCEPT !.pc = "done"],
                    "response", "locations", Seen(res))

P1Ready == client = "p1" /\ pc # "start"

\* #btn_refresh (part_001:218).
P1ClickRefresh ==
  /\ P1Ready /\ CanSend(2)
  /\ Commit(p1_refresh(World, "none"), "refresh", "", NoRes)

\* The Slet button of a row (part_001:151-155) up to its await; confirmed is the
\* answer to confirm("Slet denne tur?").
P1ClickDelete ==
  /\ P1Ready /\ CanSend(1)
  /\ \E i \in 1..Len(dom.rows), confirmed \in BOOLEAN :
       Commit(IF confirmed
              THEN [Send(World, Request("delete", Null, dom.rows[i], NoBody, Null))
                      EXCEPT !.clicked = dom.rows[i]]
              ELSE [World EXCEPT !.clicked = dom.rows[i]],
              IF confirmed THEN "deleteConfirm" ELSE "deleteCancel", "", NoRes)

P1DeleteResponse(R) ==
  /\ client = "p1"
  /\ \E req \in Pending, res \in R :
       /\ req.kind = "delete"
       /\ res.status \in 200..299 => InFlight(World) + 1 <= MaxInFlight
       /\ LET r == fetchJSON(res)
              w0 == Receive(World, req)
          IN Commit(IF r.threw THEN unhandled(w0) ELSE p1_refresh(w0, "none"),
                    "response", "delete", Seen(res))

\* addTrip (part_001:169-205) up to its await; a disabled button does not click.
P1ClickAdd ==
  /\ P1Ready /\ ~dom.btnDisabled /\ CanSend(1)
  /\ Commit(Send([p1_setStatus(World, EmptyStr, FALSE) EXCEPT !.dom.btnDisabled = TRUE],
                 Request("post", Null, Null, CreateBody(dom), Null)),
            "submit", "", NoRes)

\* addTrip after its await (part_001:190-204).
P1AddResponse(R) ==
  /\ client = "p1"
  /\ \E req \in Pending, res \in R :
       /\ req.kind = "post"
       /\ res.status \in 200..299 => InFlight(World) + 1 <= MaxInFlight
       /\ LET r == fetchJSON(res)
              w0 == Receive(World, req)
          IN Commit(IF r.threw THEN p1_addFinally(p1_setStatus(w0, r.message, TRUE))
                    ELSE IF r.isNull THEN p1_addFinally(p1_setStatus(w0, TypeErrorMsg, TRUE))
                    ELSE LET w1 == [p1_setStatus(w0, <<"Gemt">>, FALSE)
                                      EXCEPT !.dom.purpose = EmptyStr,
                                             !.dom.destination = EmptyStr,
                                             !.state.selectedDest = Null]
                         IN IF renderLocationsThrows(w1)
                            THEN p1_addFinally(p1_setStatus(w1, TypeErrorMsg, TRUE))
                            ELSE p1_refresh(renderLocations(w1), "add"),
                    "response", "post", Seen(res))

\* The user edits #year (part_001:94, 122 read it): no listener.
P1TypeYear ==
  /\ P1Ready
  /\ \E y \in Years : y # dom.year /\ Commit([World EXCEPT !.dom.year = y], "type", "", NoRes)

\* The user edits #purpose (no listener), or #destination, whose input listener
\* clears the selection (part_001:223).
P1TypeForm ==
  /\ P1Ready
  /\ \/ \E v \in Purposes : v # dom.purpose /\ Commit([World EXCEPT !.dom.purpose = v], "type", "", NoRes)
     \/ \E v \in Destinations :
          /\ v # dom.destination
          /\ LET w1 == [World EXCEPT !.dom.destination = v, !.state.selectedDest = Null]
             IN Commit(IF renderLocationsThrows(w1) THEN unhandled(w1) ELSE renderLocations(w1),
                       "type", "", NoRes)

\* The onclick of a destination button (part_001:67-71).
P1ClickDestChip ==
  /\ P1Ready
  /\ \E i \in 1..Len(dom.chips) :
       LET id == dom.chips[i]
           sel == IF state.selectedDest = id THEN Null ELSE id
           w1 == [World EXCEPT !.state.selectedDest = sel,
                               !.dom.destination = IF sel # Null THEN formatAddress(id) ELSE EmptyStr]
       IN Commit(IF renderLocationsThrows(w1) THEN unhandled(w1) ELSE renderLocations(w1),
                 "chip", "", NoRes)

\* ================================================================= Next
\* The three pages load and reload their data: the initialisation, the refresh
\* button and the choice of the year, with every answer the server can give.
Next ==
  \/ AppDOMContentLoaded
  \/ AppLocationsResponse(LocationsResponses)
  \/ AppAllTripsResponse(TripsResponses)
  \/ AppTripsResponse(TripsResponses)
  \/ AppSummaryResponse(SummaryResponses)
  \/ ClickRefresh \/ ClickPrevYear \/ ClickNextYear
  \/ P0DOMContentLoaded
  \/ P0TripsResponse(TripsResponses)
  \/ P0SummaryResponse(SummaryResponses)
  \/ P0ClickRefresh \/ P0TypeYear
  \/ P1DOMContentLoaded
  \/ P1LocationsResponse(LocationsResponses)
  \/ P1TripsResponse(TripsResponses)
  \/ P1SummaryResponse(SummaryResponses)
  \/ P1ClickRefresh \/ P1TypeYear

Spec == Init /\ [][Next]_vars
\* ------------------------------------------------- further specifications
\* The steps that load a page, for the answers L, T and S the server gives to
\* the locations, trips and summary requests.
AppLoad(L, T, S) ==
  \/ AppDOMContentLoaded
  \/ AppLocationsResponse(L)
  \/ AppAllTripsResponse(T)
  \/ AppTripsResponse(T)
  \/ AppSummaryResponse(S)

P0Load(T, S) == P0DOMContentLoaded \/ P0TripsResponse(T) \/ P0SummaryResponse(S)

P1Load(L, T, S) ==
  \/ P1DOMContentLoaded
  \/ P1LocationsResponse(L)
  \/ P1TripsResponse(T)
  \/ P1SummaryResponse(S)

\* Deleting a trip in app.js (the delete modal) and in part_001 (confirm()).
NextDelete ==
  \/ AppLoad(LocationsResponses, TripsResponses, SummaryResponses)
  \/ AppDeleteResponse(WriteResponses)
  \/ ClickDeleteRow \/ ClickDeleteCancel \/ ClickDeleteConfirm \/ PressEscape
  \/ P1Load(LocationsResponses, TripsResponses, SummaryResponses)
  \/ P1DeleteResponse(WriteResponses)
  \/ P1ClickDelete

SpecDelete == Init /\ [][NextDelete]_vars

\* Adding and deleting trips in app.js.  The server answers the loads with a list
\* of two trips, a list of one, or a failure.
FewTrips == {OkJSON(<<1, 2>>), OkJSON(<<2>>)} \cup Failures(<<>>)
OkLocations == {OkJSON(q) : q \in LocationLists}
OkSummary == {OkJSON([rate_high |-> 394, rate_low |-> 228, reimbursement |-> 0])}

NextWrite ==
  \/ AppLoad(OkLocations, FewTrips, OkSummary)
  \/ AppDeleteResponse(WriteResponses)
  \/ AppSubmitResponse(WriteResponses)
  \/ ClickDeleteRow \/ ClickDeleteCancel \/ ClickDeleteConfirm \/ PressEscape
  \/ ClickAddTrip \/ ClickTripClose \/ SubmitTripForm

SpecWrite == Init /\ [][NextWrite]_vars

\* The list of app.js under its month tabs and filter buttons, and the summaries
\* of the two simple pages.  app.js gets a list of two trips, a list of one, a body
\* that is not JSON, or a failure.
ListTrips == FewTrips \cup {OkNotJSON(<<>>)}

NextList ==
  \/ AppLoad(OkLocations, ListTrips, SummaryResponses)
  \/ ClickRefresh \/ ClickMonthTab \/ ClickFilterBtn
  \/ P0Load(TripsResponses, SummaryResponses)
  \/ P0ClickRefresh
  \/ P1Load(OkLocations, TripsResponses, SummaryResponses)
  \/ P1ClickRefresh

SpecList == Init /\ [][NextList]_vars

\* Filling in and submitting the trip form on the three pages; the server answers
\* the loads with one trip.
OneTrip == {OkJSON(<<1>>)}

NextForm ==
  \/ AppLoad(OkLocations, OneTrip, OkSummary)
  \/ AppSubmitResponse(WriteResponses)
  \/ ClickAddTrip \/ ClickTripClose
  \/ TypePurpose \/ TypeDate \/ TypeOrigin \/ TypeDestination \/ ToggleRoundTrip
  \/ SubmitTripForm
  \/ P0Load(OneTrip, OkSummary)
  \/ P0AddResponse(WriteResponses)
  \/ P0ClickAdd \/ P0TypeForm
  \/ P1Load(OkLocations, OneTrip, OkSummary)
  \/ P1AddResponse(WriteResponses)
  \/ P1ClickAdd \/ P1TypeForm \/ P1ClickDestChip

SpecForm == Init /\ [][NextForm]_vars

\* The calendar modal and the trip modal of app.js, with every answer the server
\* can give to GET /api/calendar/events.
NextCal ==
  \/ AppLoad(OkLocations, OneTrip, OkSummary)
  \/ AppCalendarResponse(CalendarResponses)
  \/ AppSubmitResponse(WriteResponses)
  \/ ClickCalendar \/ ClickCalendarClose \/ ClickAddEvent
  \/ ClickAddTrip \/ ClickTripClose \/ SubmitTripForm
  \/ PressEscape

SpecCal == Init /\ [][NextCal]_vars

\* The server as spec.md section 4 describes it, when nothing fails: GET
\* /api/trips?year=Y answers the trips of year Y, GET /api/summary?year=Y the
\* Summary of year Y (the rates differ from year to year).
AllTrips == [i \in 1..MaxTripId |-> i]
TripsOfYear(y) ==
  LET InYear(id) == tripYear(id) = y
  IN SelectSeq(AllTrips, InYear)
RatesOfYear(y) ==
  IF y = CurrentYear THEN [high |-> 394, low |-> 228] ELSE [high |-> 379, low |-> 223]
SummaryOfYear(y) ==
  [rate_high |-> RatesOfYear(y).high, rate_low |-> RatesOfYear(y).low, reimbursement |-> 0]

\* loadTrips and loadSummary after their awaits (app.js:431, 396), the server
\* answering each request for the year the request names.
AppYearTripsResponse ==
  /\ client = "app"
  /\ \E req \in Pending :
       /\ req.kind = "trips"
       /\ LET res == OkJSON(TripsOfYear(req.year))
          IN Commit(Settle(loadTripsResume(Receive(World, req), fetchJSON(res)), req),
                    "response", "trips", Seen(res))

AppYearSummaryResponse ==
  /\ client = "app"
  /\ \E req \in Pending :
       /\ req.kind = "summary"
       /\ LET res == OkJSON(SummaryOfYear(req.year))
          IN Commit(Settle(loadSummaryResume(Receive(World, req), fetchJSON(res)), req),
                    "response", "summary", Seen(res))

\* Changing the year in app.js against a server that never fails.
NextYear ==
  \/ AppDOMContentLoaded
  \/ AppLocationsResponse(OkLocations)
  \/ AppAllTripsResponse({OkJSON(AllTrips)})
  \/ AppYearTripsResponse \/ AppYearSummaryResponse
  \/ ClickRefresh \/ ClickPrevYear \/ ClickNextYear

SpecYear == Init /\ [][NextYear]_vars

\* The list of app.js under the month tabs, the filter buttons and the search
\* field; the server answers a trips request with the two trips or with a body
\* that is not JSON.
FilterTrips == {OkJSON(<<1, 2>>), OkNotJSON(<<>>)}

NextFilter ==
  \/ AppLoad(OkLocations, FilterTrips, OkSummary)
  \/ ClickRefresh \/ ClickMonthTab \/ ClickFilterBtn
  \/ SearchInput \/ SearchTimer

SpecFilter == Init /\ [][NextFilter]_vars

\* The trip modal of app.js with its distance preview.
NextPreview ==
  \/ AppLoad(OkLocations, OneTrip, OkSummary)
  \/ AppPreviewResponse(PreviewResponses)
  \/ ClickAddTrip \/ ClickTripClose
  \/ TypeOrigin \/ TypeDestination \/ ToggleRoundTrip
  \/ PreviewTimer

SpecPreview == Init /\ [][NextPreview]_vars

\* Submitting the trip form in app.js and in part_001.  Every request is answered
\* in the end (a fetch settles, with a response or with a network error): the
\* steps that handle an answer are weakly fair.
NextSubmit ==
  \/ AppLoad(OkLocations, FewTrips, OkSummary)
  \/ AppSubmitResponse(WriteResponses)
  \/ ClickAddTrip \/ ClickTripClose \/ SubmitTripForm
  \/ P1Load(OkLocations, FewTrips, OkSummary)
  \/ P1AddResponse(WriteResponses)
  \/ P1ClickAdd

\* A request of app.js of the given kind is in flight, and a step handles the
\* answer to one.  loadTrips and loadSummary resume whenever their request is in
\* flight (AppTripsResponse and AppSummaryResponse have no other guard), so these
\* are ENABLED <<A>>_vars and <<A>>_vars of the two actions.
Answerable(kind) == client = "app" /\ \E r \in Pending : r.kind = kind
Answered(kind) == client = "app" /\ last'.ev = "response" /\ last'.kind = kind

\* Weak fairness of AppTripsResponse and AppSummaryResponse, written out.
AnswersLoads ==
  /\ []<>(~Answerable("trips")) \/ []<><<Answered("trips")>>_vars
  /\ []<>(~Answerable("summary")) \/ []<><<Answered("summary")>>_vars

SpecSubmit ==
  /\ Init /\ [][NextSubmit]_vars
  /\ WF_vars(AppLocationsResponse(OkLocations))
  /\ WF_vars(AppAllTripsResponse(FewTrips))
  /\ AnswersLoads
  /\ WF_vars(AppSubmitResponse(WriteResponses))
  /\ WF_vars(P1LocationsResponse(OkLocations))
  /\ WF_vars(P1TripsResponse(FewTrips))
  /\ WF_vars(P1SummaryResponse(OkSummary))
  /\ WF_vars(P1AddResponse(WriteResponses))

\* The location chips of the trip modal of app.js.
NextChips ==
  \/ AppLoad(OkLocations, OneTrip, OkSummary)
  \/ ClickAddTrip \/ ClickTripClose
  \/ TypeOrigin \/ TypeDestination \/ ClickChip

SpecChips == Init /\ [][NextChips]_vars

\* The initialisation of app.js for every answer to GET /api/locations and GET
\* /api/trips, the server then answering the loads for the year they name; the
\* user uses the month tabs, the filter buttons and the refresh button meanwhile.
NextInit ==
  \/ AppDOMContentLoaded
  \/ AppLocationsResponse(LocationsResponses)
  \/ AppAllTripsResponse(TripsResponses)
  \/ AppYearTripsResponse \/ AppYearSummaryResponse
  \/ ClickRefresh \/ ClickMonthTab \/ ClickFilterBtn

SpecInit == Init /\ [][NextInit]_vars

\* Every event of the user that a listener of app.js handles (app.js:791-867 and
\* the buttons that renderTrips, renderLocationChips and renderCalendarEvents add).
UserEvent ==
  \/ ClickRefresh \/ ClickPrevYear \/ ClickNextYear
  \/ ClickMonthTab \/ ClickFilterBtn \/ SearchInput
  \/ ClickDeleteRow \/ ClickDeleteCancel \/ ClickDeleteConfirm
  \/ PressEscape
  \/ ClickAddTrip \/ ClickTripClose \/ SubmitTripForm
  \/ TypePurpose \/ TypeDate \/ TypeOrigin \/ TypeDestination \/ ToggleRoundTrip
  \/ ClickChip
  \/ ClickCalendar \/ ClickCalendarClose \/ ClickAddEvent

\* ============================================================== properties
\* The last step handled a response that is a failure: a status outside 200..299,
\* or a body that is there and is not JSON (the empty body of a 204 is no failure).
FailedResponse ==
  /\ last.ev = "response"
  /\ last.status \notin 200..299 \/ (~last.parsed /\ last.status # 204)

\* The handler of the last step showed an error message to the user.
ErrorShown ==
  CASE client = "app" -> last.out.toast.type = "error" /\ last.out.toast.message # EmptyStr
    [] client = "p0" -> dom.error # EmptyStr
    [] OTHER -> dom.status # EmptyStr /\ dom.statusIsError

\* C1: every failed request and every response whose body is not JSON ends with an
\* error message shown to the user (a toast in app.js, the error or status line
\* in the two simple pages), and none is left as an unhandled rejection.
C1_ErrorsShown == FailedResponse => (ErrorShown /\ ~last.out.unhandled)

\* ----------------------------------------------------------------- C2
\* The refresh() calls this step started, and the requests this step issued.
StartedRefreshes == refreshes' \ refreshes
IssuedRequests == {r \in BagToSet(net') : CopiesIn(r, net') > CopiesIn(r, net)}
RefreshRids(S) == {f.rid : f \in S}

\* refresh call f issued GET /api/trips?year=Y and GET /api/summary?year=Y in this step.
IssuedTogether(f) ==
  \E y \in Years :
    /\ CopiesIn(Request("trips", y, Null, NoBody, f.rid), net') = 1
    /\ CopiesIn(Request("summary", y, Null, NoBody, f.rid), net') = 1

\* Every load a step issues is issued by the refresh() call the step started.
IssuedAtStart ==
  \A r \in IssuedRequests : r.rid # Null => r.rid \in RefreshRids(StartedRefreshes)

\* No load is in flight whose refresh() call has completed.
AwaitedJointly == \A r \in Pending : r.rid # Null => r.rid \in RefreshRids(refreshes)

\* C2 as stated: refresh() issues the two requests together, neither waiting for
\* the other's response, and it completes only after both have settled.
C2_TogetherAndJoint ==
  [][/\ \A f \in StartedRefreshes : IssuedTogether(f)
     /\ IssuedAtStart
     /\ AwaitedJointly']_vars

\* refresh() of part_000 issued GET /api/trips?year=Y alone in this step.
IssuedTripsOnly(f) ==
  /\ \E y \in Years : CopiesIn(Request("trips", y, Null, NoBody, f.rid), net') = 1
  /\ \A r \in BagToSet(net') : r.rid = f.rid => r.kind = "trips"

\* C2, amended: app.js and part_001 issue the two requests together, part_000
\* issues GET /api/summary in the step that handles the successful answer to GET
\* /api/trips; refresh() completes only after every request it issued has settled,
\* but in part_001 a failed GET /api/trips completes it at once, the summary
\* request possibly still in flight.
C2_RefreshPerPage ==
  [][CASE client = "app" ->
            /\ \A f \in StartedRefreshes : IssuedTogether(f)
            /\ IssuedAtStart
            /\ AwaitedJointly'
       [] client = "p1" ->
            /\ \A f \in StartedRefreshes : IssuedTogether(f)
            /\ IssuedAtStart
            /\ \A r \in BagToSet(net') :
                 (r.rid # Null /\ r.rid \notin RefreshRids(refreshes')) => r.kind = "summary"
            /\ \A f \in refreshes \ refreshes' :
                 (\E r \in BagToSet(net') : r.rid = f.rid) =>
                   /\ last'.ev = "response" /\ last'.kind = "trips"
                   /\ last'.status \notin 200..299 \/ ~last'.parsed
       [] OTHER ->
            /\ \A f \in StartedRefreshes : IssuedTripsOnly(f)
            /\ \A r \in IssuedRequests :
                 (r.rid # Null /\ r.rid \notin RefreshRids(StartedRefreshes)) =>
                   /\ r.kind = "summary"
                   /\ last'.ev = "response" /\ last'.kind = "trips"
                   /\ last'.status \in 200..299 /\ last'.parsed
            /\ AwaitedJointly']_vars

\* app.js: a refresh() has completed on the answer to its summary request, the
\* answer to its trips request having come first.
C2_Witness ==
  /\ client = "app" /\ pc = "done"
  /\ last.ev = "response" /\ last.kind = "summary"
  /\ refreshes = {} /\ net = EmptyBag
C3_TripsOnlyFromGet ==
  [][/\ state'.trips # state.trips =>
          /\ last'.ev = "response" /\ last'.kind = "trips"
          /\ \E req \in Pending :
               /\ req.kind = "trips" /\ req.year \in Years
               /\ net' = net (-) SetToBag({req})
          /\ last'.status \in 200..299
          /\ state'.trips = IF last'.parsed THEN last'.data ELSE NullArr
     /\ (last'.ev = "response" /\ last'.kind \in {"post", "patch", "delete"}) =>
          /\ state'.trips = state.trips
          /\ state'.filteredTrips = state.filteredTrips
          /\ dom'.rows = dom.rows
          /\ StartedRefreshes # {} => last'.status \in 200..299]_vars

\* A DELETE has succeeded and the deleted trip is still in state.trips.
C3_Witness ==
  /\ client = "app"
  /\ last.ev = "response" /\ last.kind = "delete" /\ last.status \in 200..299
  /\ clickedRow # Null /\ Contains(state.trips, clickedRow)
\* ----------------------------------------------------------------- C4
\* The reimbursement amount the page displays.
DisplayedAmount == IF client = "app" THEN dom.stat.amount ELSE dom.summary.reimbursement

\* This step handled a Summary the server returned for a summary request.
HandledSummary ==
  /\ last'.ev = "response" /\ last'.kind = "summary"
  /\ last'.status \in 200..299 /\ last'.parsed
  /\ \E req \in Pending : req.kind = "summary" /\ net' = net (-) SetToBag({req})

\* A step of the month tabs or the filter buttons.
FilterStep == last'.ev \in {"selectMonth", "filter"}

\* C4 as stated: the amount displayed is the reimbursement estimate of the Summary
\* the server returned, whatever the server answers and whatever the filter is.
C4_ServerEstimate ==
  [][/\ HandledSummary => DisplayedAmount' = last'.data.reimbursement
     /\ FilterStep => DisplayedAmount' = DisplayedAmount]_vars

\* The tiered amount for a distance T at the rates high and low.
Tiered(T, high, low) ==
  IF T <= 20000 THEN T * high ELSE (20000 * high) + ((T - 20000) * low)

\* C4, amended: part_000 and part_001 display the reimbursement estimate of the
\* Summary the server returned and change it in no other step; app.js takes only
\* rate_high and rate_low from the Summary and displays the amount it computes
\* itself from the filtered trips, also when the filter changes.
C4_EstimatePerPage ==
  [][IF client = "app"
     THEN /\ HandledSummary =>
               /\ yearlyRates' = [high |-> last'.data.rate_high, low |-> last'.data.rate_low]
               /\ DisplayedAmount' =
                    Tiered(SumKm(state'.filteredTrips), last'.data.rate_high, last'.data.rate_low)
          /\ (FilterStep /\ ~last'.out.unhandled) =>
               DisplayedAmount' =
                 Tiered(SumKm(state'.filteredTrips), yearlyRates.high, yearlyRates.low)
     ELSE /\ HandledSummary => DisplayedAmount' = last'.data.reimbursement
          /\ dom'.summary # dom.summary => HandledSummary]_vars

\* app.js has handled a Summary while a month is selected, and the amount it
\* shows is the one it computed, not the estimate of the Summary.
C4_Witness ==
  /\ client = "app" /\ last.ev = "response" /\ last.kind = "summary"
  /\ last.status \in 200..299 /\ last.parsed
  /\ state.selectedMonth # "all" /\ dom.stat.set /\ dom.stat.amount > 0
  /\ dom.stat.amount # last.data.reimbursement

\* ----------------------------------------------------------------- C10
\* C10: with T the summed distance_km of the trips the stats bar counts, the
\* amount of the stats bar is rate_high * T when T <= 20 000 and rate_high * 20 000
\* + rate_low * (T - 20 000) when T > 20 000; at T = 20 000 the two agree.
C10_TieredAmount ==
  (client = "app" /\ dom.stat.set) =>
    LET T == dom.stat.km
        high == yearlyRates.high
        low == yearlyRates.low
    IN /\ dom.stat.trips = Len(state.filteredTrips)
       /\ T = SumKm(state.filteredTrips)
       /\ dom.stat.rate = high
       /\ T <= 20000 => dom.stat.amount = high * T
       /\ T > 20000 => dom.stat.amount = (high * 20000) + (low * (T - 20000))
       /\ T = 20000 => dom.stat.amount = (high * 20000) + (low * (T - 20000))

\* The stats bar shows an amount for more than 20 000 km.
C10_Witness == client = "app" /\ dom.stat.set /\ dom.stat.km > 20000
\* ----------------------------------------------------------------- C6
\* The year the page has selected.
SelectedYear == IF client = "app" THEN state.selectedYear ELSE dom.year

\* C6: a submit in add mode issues exactly one request, a POST /api/trips whose
\* body has trip_date, purpose, origin, destination and round_trip as the form has
\* them at that moment, and travel_mode; it closes nothing and starts no refresh.
\* The step that handles the answer to the POST issues no further POST, PATCH or
\* DELETE, and closes the modal and starts a refresh, for the selected year, only
\* when the POST succeeded.
C6_OnePostPerSubmit ==
  [][/\ (last'.ev = "submit" /\ state.editingTripId = Null) =>
          /\ \E r \in IssuedRequests :
               /\ net' = net (+) SetToBag({r})
               /\ r.kind = "post" /\ r.id = Null
               /\ r.body.fields =
                    {"trip_date", "purpose", "origin", "destination", "round_trip", "travel_mode"}
               /\ r.body.trip_date = dom.trip_date
               /\ r.body.purpose = dom.purpose
               /\ r.body.origin = dom.origin
               /\ r.body.destination = dom.destination
               /\ r.body.round_trip = dom.round_trip
               /\ r.body.travel_mode = IF client = "p0" THEN dom.travel_mode ELSE <<"DRIVE">>
          /\ StartedRefreshes = {}
          /\ dom'.tripModalOpen = dom.tripModalOpen
     /\ (last'.ev = "response" /\ last'.kind = "post") =>
          /\ \A r \in IssuedRequests : r.kind \in {"trips", "summary"}
          /\ StartedRefreshes # {} => last'.status \in 200..299
          /\ (dom.tripModalOpen /\ ~dom'.tripModalOpen) => last'.status \in 200..299
          /\ \A f \in StartedRefreshes :
               \E r \in IssuedRequests :
                 r.kind = "trips" /\ r.rid = f.rid /\ r.year = SelectedYear]_vars

\* app.js: the POST of a filled-in form has succeeded; the modal is closed and
\* the refresh is under way.
C6_Witness ==
  /\ client = "app"
  /\ last.ev = "response" /\ last.kind = "post" /\ last.status \in 200..299
  /\ ~dom.tripModalOpen /\ refreshes # {}
  /\ \E r \in Pending : r.kind = "trips" /\ r.year = state.selectedYear
\* ----------------------------------------------------------------- C5
\* C5: the user can edit a trip: on the loaded page with a trip in the list and
\* no modal open, an event of the user puts the trip modal in edit mode for a trip
\* of the list; and in edit mode the submit issues a PATCH for that trip and no POST.
C5_EditReachable ==
  /\ (/\ client = "app" /\ pc = "done" /\ dom.rows # <<>>
      /\ ~dom.tripModalOpen /\ ~dom.deleteModalOpen /\ ~dom.calendarModalOpen) =>
       ENABLED (UserEvent /\ dom'.tripModalOpen /\ Contains(dom.rows, state'.editingTripId))
  /\ \A r \in Pending : r.kind = "patch" => r.body.fields = {"trip_date", "purpose"}

\* What holds instead: no step ever sets editingTripId, and no PATCH is ever issued.
C5_NeverEditMode == state.editingTripId = Null /\ \A r \in Pending : r.kind # "patch"

\* ----------------------------------------------------------------- C8
\* C8: when GET /api/calendar/events fails, the loading indicator is hidden and the
\* not-connected panel shown; an error toast with the message is shown exactly when
\* the message contains neither "not configured" nor "501"; a 501 answer is treated
\* as not configured (no toast).
C8_CalendarFailure ==
  (client = "app" /\ last.ev = "response" /\ last.kind = "calendar"
     /\ last.status \notin 200..299) =>
    LET toast == last.out.toast
        configured ==
          ~(Includes(last.message, <<"not configured">>) \/ Includes(last.message, <<"501">>))
    IN /\ dom.calLoadingHidden /\ ~dom.calNotConnectedHidden
       /\ (toast.type = "error") <=> configured
       /\ toast.type = "error" => toast.message = last.message
       /\ last.status = 501 => toast.type = "none"

\* ----------------------------------------------------------------- C9
\* C9: choosing a calendar event closes the calendar modal and opens the trip
\* modal in add mode with trip_date, purpose and destination of the event, and
\* issues no request; a POST /api/trips is issued only by a form submit.
C9_EventPrefill ==
  [][/\ last'.ev = "addTripFromEvent" =>
          /\ ~dom'.calendarModalOpen /\ dom'.tripModalOpen
          /\ state'.editingTripId = Null
          /\ dom'.trip_date = eventDate(last'.data)
          /\ dom'.purpose = eventTitle(last'.data)
          /\ dom'.destination = eventLocation(last'.data)
          /\ IssuedRequests = {}
     /\ \A r \in IssuedRequests : r.kind = "post" => last'.ev = "submit"]_vars

\* ----------------------------------------------------------------- C11
\* C11: in app.js, when the page has initialised and no request is in flight (so
\* no trips request is), the sheet rows are state.filteredTrips, same trips in the
\* same order, and the empty-state placeholder is visible exactly when
\* filteredTrips is empty; in particular right after a refresh has completed.
C11_RowsAreFiltered ==
  (client = "app" /\ pc = "done" /\ net = EmptyBag /\ state.trips # NullArr) =>
    /\ dom.rows = state.filteredTrips
    /\ ~dom.emptyHidden <=> (state.filteredTrips = <<>>)

\* ----------------------------------------------------------------- C12
\* C12: in app.js, when the page has initialised and no request is in flight,
\* state.trips is what the server answers to GET /api/trips?year=Y for the
\* selected year Y and the rates of the stats bar are those of the Summary of
\* year Y, whatever the order in which the answers to overlapping requests arrive.
C12_SelectedYearShown ==
  (client = "app" /\ pc = "done" /\ net = EmptyBag) =>
    /\ state.trips = TripsOfYear(state.selectedYear)
    /\ yearlyRates = RatesOfYear(state.selectedYear)
    /\ dom.stat.rate = RatesOfYear(state.selectedYear).high

\* ----------------------------------------------------------------- C13
\* The answers that succeed: 2xx with a JSON body.
Succeeds(res) == res.status \in 200..299 /\ res.parsed /\ res.text # EmptyStr

\* The world after the trips request t and then the summary request s of one
\* refresh() were answered by rt and rs, and after the opposite order.
TripsThenSummary(t, rt, s, rs) ==
  LET w1 == Settle(loadTripsResume(Receive(World, t), fetchJSON(rt)), t)
  IN Settle(loadSummaryResume(Receive(w1, s), fetchJSON(rs)), s)

SummaryThenTrips(t, rt, s, rs) ==
  LET w1 == Settle(loadSummaryResume(Receive(World, s), fetchJSON(rs)), s)
  IN Settle(loadTripsResume(Receive(w1, t), fetchJSON(rt)), t)

\* C13: in app.js, for a refresh() whose two requests are both in flight and for
\* any two answers that succeed, handling the trips answer and then the summary
\* answer gives the same state, rates and page as handling them in the opposite
\* order; the stats bar then has the count, the total km and the tiered amount of
\* the newly loaded filtered trips at the newly loaded rates.
C13_OrderIndependent ==
  client = "app" =>
    \A t \in Pending, s \in Pending :
      (t.kind = "trips" /\ s.kind = "summary" /\ t.rid = s.rid) =>
        \A rt \in ListTrips, rs \in SummaryResponses :
          (Succeeds(rt) /\ Succeeds(rs)) =>
            LET a == TripsThenSummary(t, rt, s, rs)
                b == SummaryThenTrips(t, rt, s, rs)
                T == SumKm(a.state.filteredTrips)
            IN /\ a = b
               /\ a.state.trips = rt.data
               /\ a.rates = [high |-> rs.data.rate_high, low |-> rs.data.rate_low]
               /\ a.dom.stat =
                    [set |-> TRUE, trips |-> Len(a.state.filteredTrips), km |-> T,
                     amount |-> Tiered(T, rs.data.rate_high, rs.data.rate_low),
                     rate |-> rs.data.rate_high]

\* A refresh() of app.js has completed on the answer to its trips request, the
\* answer to its summary request having come first: the stats bar counts the loaded
\* trips at the loaded rates.
C13_Witness ==
  /\ client = "app" /\ pc = "done" /\ refreshes = {} /\ net = EmptyBag
  /\ last.ev = "response" /\ last.kind = "trips" /\ last.status = 200 /\ last.parsed
  /\ state.trips = last.data /\ state.selectedMonth # "all"
  /\ dom.stat.trips = 1 /\ dom.stat.rate = 379 /\ yearlyRates.low = 223

\* ----------------------------------------------------------------- C14
\* Trip id passes the filters that are active in state.
PassesFilters(id) ==
  /\ state.selectedMonth # "all" => tripMonth(id) = parseInt(state.selectedMonth)
  /\ state.searchQuery # EmptyStr =>
       \E field \in {tripPurpose(id), tripOrigin(id), tripDest(id)} :
         Includes(toLowerCase(field), toLowerCase(state.searchQuery))
  /\ state.activeFilter = "round-trip" => tripRound(id)
  /\ state.activeFilter = "one-way" => ~tripRound(id)

\* C14: in app.js, state.filteredTrips is the sub-sequence of state.trips (no
\* trips when state.trips is null), in the order of state.trips, of the trips that
\* pass the month filter, the search and the type filter together; the trip count
\* and the total km of the stats bar are those of that list.
C14_DerivedCopy ==
  client = "app" =>
    LET trips == IF state.trips = NullArr THEN <<>> ELSE state.trips
    IN /\ state.filteredTrips = SelectSeq(trips, PassesFilters)
       /\ dom.stat.set =>
            /\ dom.stat.trips = Len(SelectSeq(trips, PassesFilters))
            /\ dom.stat.km = SumKm(SelectSeq(trips, PassesFilters))

\* What holds instead: the same whenever state.trips is an array.
C14_DerivedWhenArray == state.trips # NullArr => C14_DerivedCopy

\* ----------------------------------------------------------------- C15
\* The debounce of the search field in one step: an input event calls nothing and
\* leaves a timer pending; handleSearch is called only by the timer firing, once
\* (no timer is pending afterwards), with the value the field has, which is the
\* value of the last input event; with no timer pending state.searchQuery is the
\* field's value.
DebounceStep ==
  /\ last'.ev = "searchInput" =>
       /\ timers'.search
       /\ state' = state /\ dom'.rows = dom.rows /\ dom'.stat = dom.stat
  /\ state'.searchQuery # state.searchQuery =>
       /\ last'.ev = "searchTimer" /\ timers.search
  /\ last'.ev = "searchTimer" =>
       /\ timers.search /\ ~timers'.search
       /\ dom'.searchInput = dom.searchInput
       /\ state'.searchQuery = dom.searchInput
  /\ ~timers'.search => state'.searchQuery = dom'.searchInput

\* The filtered list after the step is the trips that contain the new query.
ReflectStep ==
  last'.ev = "searchTimer" =>
    \A id \in TripIds :
      Contains(state'.filteredTrips, id) =>
        \/ state'.searchQuery = EmptyStr
        \/ \E field \in {tripPurpose(id), tripOrigin(id), tripDest(id)} :
             Includes(toLowerCase(field), toLowerCase(state'.searchQuery))

\* C15: a burst of input events on the search field causes one handleSearch call,
\* after the last event and with its value; once no timer is pending,
\* state.searchQuery is the field's value and the filtered list reflects it.
C15_Debounced == [][DebounceStep /\ ReflectStep]_vars

\* What holds instead: the debounce alone.
C15_DebounceOnly == [][DebounceStep]_vars

\* ----------------------------------------------------------------- C16
\* The preview is at rest: no preview request in flight, no debounce timer pending.
PreviewAtRest == ~timers.preview /\ \A r \in Pending : r.kind # "preview"

\* Origin or destination of the form is shorter than 3 characters.
TooShort == StrLength(trim(dom.origin)) < 3 \/ StrLength(trim(dom.destination)) < 3

\* C16: in app.js, with the preview at rest, the trip modal open and origin and
\* destination both of 3 characters or more, a distance the preview shows is the
\* server's result for the values currently in the form: it carries the round-trip
\* label of the form's round_trip, in whatever order the answers to overlapping
\* preview requests arrived.
C16_PreviewFresh ==
  [][(/\ client = "app" /\ PreviewAtRest' /\ dom'.tripModalOpen /\ ~TooShort'
      /\ ~dom'.previewHidden /\ dom'.previewText.kind = "km") =>
       dom'.previewText.roundTrip = dom'.round_trip]_vars

\* ----------------------------------------------------------------- C17
\* A submission is being processed: its POST or PATCH is in flight, or the
\* refresh() that its handler awaits has not completed.
Processing ==
  \/ \E r \in Pending : r.kind \in {"post", "patch"}
  \/ \E f \in refreshes : f.cont \in {"submit", "add"}

C18_FailureKeepsState ==
  [][/\ (/\ client = "app" /\ last'.ev = "response"
         /\ last'.kind \in {"post", "patch", "delete"}
         /\ last'.status \notin 200..299) =>
          /\ state' = state
          /\ dom'.tripModalOpen = dom.tripModalOpen
          /\ dom'.deleteModalOpen = dom.deleteModalOpen
          /\ dom'.rows = dom.rows
          /\ IssuedRequests = {} /\ StartedRefreshes = {}
          /\ \E req \in Pending : req.kind = last'.kind /\ net' = net (-) SetToBag({req})
          /\ last'.out.toast.type = "error"
     /\ client = "app" =>
          \A r \in IssuedRequests :
            r.kind \in {"post", "patch", "delete"} =>
              /\ last'.ev \in {"submit", "deleteConfirm"}
              /\ net' = net (+) SetToBag({r})]_vars

\* The DELETE of a confirmed deletion has failed: the delete modal is open for the
\* same trip, which is still in state.trips, and nothing is in flight.
C18_Witness ==
  /\ client = "app" /\ last.ev = "response" /\ last.kind = "delete"
  /\ last.status \notin 200..299
  /\ dom.deleteModalOpen /\ state.deleteTargetId = clickedRow
  /\ Contains(state.trips, clickedRow) /\ net = EmptyBag

\* ----------------------------------------------------------------- C19
\* C19: in app.js, in every reachable state, if state.selectedOrigin is not null
\* the origin input holds the formatted address of that location, and if
\* state.selectedDest is not null the destination input holds the formatted
\* address of that location; also after the trip modal was opened again in add
\* mode.
C19_ChipMatchesInput ==
  client = "app" =>
    /\ state.selectedOrigin # Null => dom.origin = formatAddress(state.selectedOrigin)
    /\ state.selectedDest # Null => dom.destination = formatAddress(state.selectedDest)

\* ----------------------------------------------------------------- C20
\* y is the greatest year among the trip_date values of the trips q.
GreatestYear(q, y) ==
  /\ \E i \in 1..Len(q) : tripYear(q[i]) = y
  /\ \A i \in 1..Len(q) : tripYear(q[i]) <= y

\* C20: in app.js the step that handles the answer to GET /api/trips sets
\* state.selectedYear (and the year display) to the greatest year among the trips
\* returned, or leaves the current year when the list is empty or the body is not
\* JSON, and issues the loads for that year; no other step of the initialisation
\* changes the year.  The step that finishes the initialisation selects the 'all'
\* month tab, and then the trips held and the rates held and shown are those the
\* server answers for the selected year, and the rows of the table are the trips
\* of that year that pass the type filter, unless a refresh the user asked for is
\* still loading.
C20_InitialYear ==
  [][client = "app" =>
       /\ (last'.ev = "response" /\ last'.kind = "alltrips" /\ last'.status \in 200..299) =>
            /\ IF last'.parsed /\ last'.data # <<>>
               THEN GreatestYear(last'.data, state'.selectedYear)
               ELSE state'.selectedYear = CurrentYear
            /\ dom'.yearDisplay = state'.selectedYear
            /\ \A f \in StartedRefreshes :
                 /\ f.cont = "init"
                 /\ CopiesIn(Request("trips", state'.selectedYear, Null, NoBody, f.rid), net') = 1
                 /\ CopiesIn(Request("summary", state'.selectedYear, Null, NoBody, f.rid), net') = 1
            /\ StartedRefreshes # {}
       /\ state'.selectedYear # state.selectedYear => last'.kind = "alltrips"
       /\ (pc # "done" /\ pc' = "done") =>
            /\ state'.selectedMonth = "all" /\ dom'.activeTab = "all"
            /\ state'.trips = TripsOfYear(state'.selectedYear)
            /\ yearlyRates' = RatesOfYear(state'.selectedYear)
            /\ dom'.stat.rate = RatesOfYear(state'.selectedYear).high
            /\ LET InFilter(id) ==
                     /\ state'.activeFilter = "round-trip" => tripRound(id)
                     /\ state'.activeFilter = "one-way" => ~tripRound(id)
               IN /\ state'.filteredTrips = SelectSeq(TripsOfYear(state'.selectedYear), InFilter)
                  /\ ~state'.isLoading => dom'.rows = state'.filteredTrips]_vars

\* The part of C20 that is about the year and the tab alone: the year chosen from
\* the answer to GET /api/trips and the tab 'all' when the initialisation finishes.
C20_YearChosen ==
  [][client = "app" =>
       /\ (last'.ev = "response" /\ last'.kind = "alltrips" /\ last'.status \in 200..299) =>
            /\ IF last'.parsed /\ last'.data # <<>>
               THEN GreatestYear(last'.data, state'.selectedYear)
               ELSE state'.selectedYear = CurrentYear
            /\ dom'.yearDisplay = state'.selectedYear
       /\ state'.selectedYear # state.selectedYear => last'.kind = "alltrips"
       /\ (pc # "done" /\ pc' = "done") =>
            /\ state'.selectedMonth = "all" /\ dom'.activeTab = "all"]_vars
====
